---- MODULE Spec2Model ----
(***************************************************************************)
(* A model of homework.py: the homework-status polling bot.                *)
(*                                                                         *)
(* TLA+ strings are ASCII, so the Russian literals of the source are       *)
(* transliterated one for one; distinct literals stay distinct, and every  *)
(* formatting step (f-strings, str() of an exception) is modelled by       *)
(* string concatenation as the interpreter performs it.                    *)
(*                                                                         *)
(* Python values are tagged records [t |-> <type name>, v |-> <payload>],  *)
(* so that None, "" and 1 are different values of different types.         *)
(***************************************************************************)
EXTENDS Naturals, Sequences, FiniteSets, TLC

VARIABLES
    PRACTICUM_TOKEN,   \* module globals read from the environment
    TELEGRAM_TOKEN,
    TELEGRAM_CHAT_ID,
    pc,                \* position of main: start, poll, sleep, exited, crashed
    timestamp,         \* main's local, set once before the loop
    old_message,       \* main's local, the text of the last send_message call
    propagating,       \* TRUE while an uncaught exception unwinds through finally
    token_checks,      \* how many times check_tokens was called by main
    iterations,        \* log: the most recent loop iterations
    notifications,     \* log: the texts of the most recent send_message calls
    last_delivery,     \* what bot.send_message did in the last of them
    sleeps,            \* the time.sleep calls (their durations) made since
                       \* the last get_api_answer call
    call               \* the last direct call of one of the pure functions

vars == <<PRACTICUM_TOKEN, TELEGRAM_TOKEN, TELEGRAM_CHAT_ID, pc, timestamp,
          old_message, propagating, token_checks, iterations, notifications,
          last_delivery, sleeps, call>>

mainVars == <<pc, timestamp, old_message, propagating, token_checks,
              iterations, notifications, last_delivery, sleeps>>

----------------------------------------------------------------------------
(* Bounds of the model *)

\* length of the window of loop iterations kept in `iterations`
MaxIterLog == 3

\* length of the window of delivery attempts kept in `notifications`
MaxSentLog == 2

----------------------------------------------------------------------------
(* Python values *)

None == [t |-> "NoneType", v |-> 0]
Str(s) == [t |-> "str", v |-> s]
Int(n) == [t |-> "int", v |-> n]
List(seq) == [t |-> "list", v |-> seq]
Dict(f) == [t |-> "dict", v |-> f]

\* the outcome of a call: a returned value or a raised exception
Return(value) == [raised |-> FALSE, value |-> value]
Raise(cls, arg) == [raised |-> TRUE, cls |-> cls, arg |-> arg]

\* truth value of the values an environment variable can have
bool(x) ==
    CASE x.t = "NoneType" -> FALSE
      [] x.t = "str" -> x.v # ""
      [] x.t = "int" -> x.v # 0
      [] x.t = "bool" -> x.v
      [] x.t = "list" -> x.v # <<>>
      [] OTHER -> DOMAIN x.v # {}

all(list) == \A i \in DOMAIN list : bool(list[i])

any(list) == \E i \in DOMAIN list : bool(list[i])

\* str(error): KeyError shows the repr of its single argument, in quotes;
\* the other exception classes show the argument itself
ExcStr(e) ==
    IF e.cls = "KeyError" THEN "'" \o e.arg \o "'" ELSE e.arg

----------------------------------------------------------------------------
(* Module constants *)

RETRY_PERIOD == 600

\* 'Отсутствует доступ к серверу Яндекс.Практикум'
ERROR_GET_API_ANSWER == "Otsutstvuet dostup k serveru Yandeks.Praktikum"

\* 'Некорректный ответ API'
ERROR_CHECK_RESPONSE == "Nekorrektnyi otvet API"

\* 'Недокументированный статус проверки или отсуствие ключа'
ERROR_PARSE_STATUS ==
    "Nedokumentirovannyi status proverki ili otsustvie klyucha"

\* 'Работа проверена: ревьюеру всё понравилось. Ура!' and so on
HOMEWORK_VERDICTS ==
    [approved |-> "Rabota proverena: revyueru vse ponravilos. Ura!",
     reviewing |-> "Rabota vzyata na proverku revyuerom.",
     rejected |-> "Rabota proverena: u revyuera est zamechaniya."]

\* 'Ответ API пуст: нет домашних работ.'
EMPTY_MESSAGE == "Otvet API pust: net domashnikh rabot."

\* 'Сбой в работе программы: '
FAILURE_PREFIX == "Sboi v rabote programmy: "

\* 'Изменился статус проверки работы "'
STATUS_PREFIX == "Izmenilsya status proverki raboty \""

----------------------------------------------------------------------------
(* The functions of the module *)

\* faulty variant: any() in place of all()
check_tokens_any ==
    any(<<PRACTICUM_TOKEN, TELEGRAM_TOKEN, TELEGRAM_CHAT_ID>>)

check_tokens ==
    all(<<PRACTICUM_TOKEN, TELEGRAM_TOKEN, TELEGRAM_CHAT_ID>>)

\* faulty variant: the exception of bot.send_message is logged and raised again
send_message_reraise(message, outcome) ==
    [raised |-> (outcome = "error"), value |-> None,
     cls |-> "TelegramError", arg |-> "Chat not found",
     attempt |-> [text |-> message, delivery |-> outcome]]

\* bot.send_message either succeeds or raises; send_message logs and returns
\* None either way.  `attempt` is what reached the bot transport.
send_message(message, outcome) ==
    [raised |-> FALSE, value |-> None,
     attempt |-> [text |-> message, delivery |-> outcome]]

\* HTTPRequestError comes from the module `exceptions`: an Exception subclass
\* whose text is the message it was built with
HTTPRequestError(message) == Raise("HTTPRequestError", message)

\* faulty variant: .json() is called outside the try statement, so its exception
\* reaches the caller as it is
get_api_answer_decode_unwrapped(from_date, reply) ==
    IF reply.transport_error
    THEN HTTPRequestError(ERROR_GET_API_ANSWER)
    ELSE IF reply.status_code # 200
    THEN HTTPRequestError(ERROR_GET_API_ANSWER)
    ELSE IF ~reply.decodable
    THEN Raise("JSONDecodeError", "Expecting value: line 1 column 1 (char 0)")
    ELSE Return(reply.json)

\* `reply` is what the network does with the request: requests.get raises,
\* or returns a response with a status code whose body decodes or does not
get_api_answer(from_date, reply) ==
    IF reply.transport_error
    THEN HTTPRequestError(ERROR_GET_API_ANSWER)
    ELSE IF reply.status_code # 200
    THEN HTTPRequestError(ERROR_GET_API_ANSWER)
    ELSE IF ~reply.decodable
    THEN HTTPRequestError(ERROR_GET_API_ANSWER)
    ELSE Return(reply.json)

\* faulty variant: the isinstance(..., list) check is left out
check_response_no_list_check(response) ==
    IF response.t # "dict"
    THEN Raise("TypeError", ERROR_CHECK_RESPONSE)
    ELSE IF "homeworks" \notin DOMAIN response.v
    THEN Raise("KeyError", ERROR_CHECK_RESPONSE)
    ELSE Return(response.v["homeworks"])

check_response(response) ==
    IF response.t # "dict"
    THEN Raise("TypeError", ERROR_CHECK_RESPONSE)
    ELSE IF "homeworks" \notin DOMAIN response.v
    THEN Raise("KeyError", ERROR_CHECK_RESPONSE)
    ELSE IF response.v["homeworks"].t # "list"
    THEN Raise("TypeError", ERROR_CHECK_RESPONSE)
    ELSE Return(response.v["homeworks"])

\* faulty variant: the quotation marks around the name are left out
StatusMessage_no_quotes(homework_name, verdict) ==
    "Izmenilsya status proverki raboty " \o homework_name \o ". " \o verdict

\* the f-string of the last line of parse_status
StatusMessage(homework_name, verdict) ==
    STATUS_PREFIX \o homework_name \o "\". " \o verdict

\* faulty variant: the vocabulary check comes before the type check
parse_status_vocabulary_first(homework) ==
    IF homework.t # "dict"
    THEN Raise("TypeError",
               "argument of type '" \o homework.t \o "' is not iterable")
    ELSE IF \/ "homework_name" \notin DOMAIN homework.v
            \/ "status" \notin DOMAIN homework.v
    THEN Raise("KeyError", ERROR_PARSE_STATUS)
    ELSE LET homework_name == homework.v["homework_name"]
             status == homework.v["status"]
         IN  IF \/ status.t # "str"
                \/ status.v \notin DOMAIN HOMEWORK_VERDICTS
             THEN Raise("KeyError", ERROR_PARSE_STATUS)
             ELSE IF homework_name.t # "str"
             THEN Raise("TypeError", ERROR_PARSE_STATUS)
             ELSE Return(StatusMessage(homework_name.v,
                                       HOMEWORK_VERDICTS[status.v]))

\* For a value that is no container (None, a number) the operator `in` itself
\* raises TypeError with the interpreter's own text.
parse_status(homework) ==
    IF homework.t # "dict"
    THEN Raise("TypeError",
               "argument of type '" \o homework.t \o "' is not iterable")
    ELSE IF \/ "homework_name" \notin DOMAIN homework.v
            \/ "status" \notin DOMAIN homework.v
    THEN Raise("KeyError", ERROR_PARSE_STATUS)
    ELSE LET homework_name == homework.v["homework_name"]
             status == homework.v["status"]
         IN  IF homework_name.t # "str" \/ status.t # "str"
             THEN Raise("TypeError", ERROR_PARSE_STATUS)
             ELSE IF status.v \notin DOMAIN HOMEWORK_VERDICTS
             THEN Raise("KeyError", ERROR_PARSE_STATUS)
             ELSE Return(StatusMessage(homework_name.v,
                                       HOMEWORK_VERDICTS[status.v]))

----------------------------------------------------------------------------
(* main *)

\* faulty variant: `except HTTPRequestError` in place of `except Exception`
Handles_http_only(cls) == cls = "HTTPRequestError"

\* `except Exception` catches every exception class but the ones that derive
\* from BaseException alone
Handles(cls) == cls \notin {"SystemExit", "KeyboardInterrupt", "GeneratorExit"}

\* faulty variant: `if not homeworks` is left out, so homeworks[0] is evaluated on the
\* empty list
TryMessage_no_empty_check(from_date, reply) ==
    LET response == get_api_answer(from_date, reply)
    IN  IF response.raised
        THEN response
        ELSE LET homeworks == check_response(response.value)
             IN  IF homeworks.raised
                 THEN homeworks
                 ELSE IF homeworks.value.v = <<>>
                 THEN Raise("IndexError", "list index out of range")
                 ELSE parse_status(homeworks.value.v[1])

\* faulty variant: homeworks[-1] in place of homeworks[0]
TryMessage_last_element(from_date, reply) ==
    LET response == get_api_answer(from_date, reply)
    IN  IF response.raised
        THEN response
        ELSE LET homeworks == check_response(response.value)
             IN  IF homeworks.raised
                 THEN homeworks
                 ELSE IF ~bool(homeworks.value)
                 THEN Return(EMPTY_MESSAGE)
                 ELSE parse_status(homeworks.value.v[Len(homeworks.value.v)])

\* the try block up to the assignment of `message`: the message, or the
\* exception raised by get_api_answer, check_response or parse_status
TryMessage(from_date, reply) ==
    LET response == get_api_answer(from_date, reply)
    IN  IF response.raised
        THEN response
        ELSE LET homeworks == check_response(response.value)
             IN  IF homeworks.raised
                 THEN homeworks
                 ELSE IF ~bool(homeworks.value)
                 THEN Return(EMPTY_MESSAGE)
                 ELSE parse_status(homeworks.value.v[1])

\* faulty variant: only the first message of the run is sent
NotifyTry_first_only(old, message, outcome) ==
    IF old = None
    THEN LET sent == send_message(message, outcome)
         IN  [old_message |-> Str(message), sends |-> <<sent.attempt>>,
              result |-> sent]
    ELSE [old_message |-> old, sends |-> <<>>, result |-> Return(None)]

\* faulty variant: old_message is assigned after the call, if the delivery succeeded
NotifyTry_update_on_success(old, message, outcome) ==
    IF old # Str(message)
    THEN LET sent == send_message(message, outcome)
         IN  [old_message |-> IF outcome = "ok" THEN Str(message) ELSE old,
              sends |-> <<sent.attempt>>, result |-> sent]
    ELSE [old_message |-> old, sends |-> <<>>, result |-> Return(None)]

\* faulty variant: a statement that follows send_message in the try block raises
NotifyTry_raises_after_send(old, message, outcome) ==
    IF old # Str(message)
    THEN LET sent == send_message(message, outcome)
         IN  [old_message |-> Str(message), sends |-> <<sent.attempt>>,
              result |-> Raise("ValueError", "after send")]
    ELSE [old_message |-> old, sends |-> <<>>, result |-> Return(None)]

\* faulty variant: the message is sent, but old_message is not assigned
NotifyTry_keep_old(old, message, outcome) ==
    IF old # Str(message)
    THEN LET sent == send_message(message, outcome)
         IN  [old_message |-> old, sends |-> <<sent.attempt>>,
              result |-> sent]
    ELSE [old_message |-> old, sends |-> <<>>, result |-> Return(None)]

\* try block: if old_message != message: old_message = message; send_message
NotifyTry(old, message, outcome) ==
    IF old # Str(message)
    THEN LET sent == send_message(message, outcome)
         IN  [old_message |-> Str(message), sends |-> <<sent.attempt>>,
              result |-> sent]
    ELSE [old_message |-> old, sends |-> <<>>, result |-> Return(None)]

\* faulty variant: the failure message is remembered, but send_message is not called
NotifyExcept_no_send(old, message, outcome) ==
    [old_message |-> Str(message), sends |-> <<>>, result |-> Return(None)]

\* faulty variant: the failure message is sent without the comparison
NotifyExcept_always(old, message, outcome) ==
    LET sent == send_message(message, outcome)
    IN  [old_message |-> Str(message), sends |-> <<sent.attempt>>,
         result |-> sent]

\* except block: the same rule applied to the failure message
NotifyExcept(old, message, outcome) ==
    IF old # Str(message)
    THEN LET sent == send_message(message, outcome)
         IN  [old_message |-> Str(message), sends |-> <<sent.attempt>>,
              result |-> sent]
    ELSE [old_message |-> old, sends |-> <<>>, result |-> Return(None)]

\* faulty variant: the name of the exception class in place of its text
FailureMessage_class_name(error) == FAILURE_PREFIX \o error.cls

\* message = f'Сбой в работе программы: {error}'
FailureMessage(error) == FAILURE_PREFIX \o ExcStr(error)

\* One pass through try/except: the new old_message, the delivery attempts
\* made, the last value assigned to `message` (None if none was), the block
\* that assigned it, and whether an exception leaves the statement uncaught.
\* `outcome` is what the bot transport does during the pass.
RunIteration(old, from_date, reply, outcome) ==
    LET tried == TryMessage(from_date, reply)
        n1 == IF tried.raised
              THEN [old_message |-> old, sends |-> <<>>, result |-> tried]
              ELSE NotifyTry(old, tried.value, outcome)
        error == n1.result
        tryMsg == IF tried.raised THEN None ELSE Str(tried.value)
    IN  IF ~error.raised
        THEN [old_message |-> n1.old_message, sends |-> n1.sends,
              message |-> tryMsg, path |-> "try", uncaught |-> FALSE]
        ELSE IF ~Handles(error.cls)
        THEN [old_message |-> n1.old_message, sends |-> n1.sends,
              message |-> tryMsg, path |-> "try", uncaught |-> TRUE]
        ELSE LET message == FailureMessage(error)
                 n2 == NotifyExcept(n1.old_message, message, outcome)
             IN  [old_message |-> n2.old_message,
                  sends |-> n1.sends \o n2.sends,
                  message |-> Str(message), path |-> "except",
                  uncaught |-> n2.result.raised]

\* faulty variant: `else` in place of `finally`, so that the sleep follows the try
\* block only
Finally_else(path) == IF path = "except" THEN "poll" ELSE "sleep"

\* finally: time.sleep(RETRY_PERIOD) follows the try and the except block
Finally(path) == "sleep"

\* after the sleep: an uncaught exception leaves main, otherwise `while True`
\* starts the next pass
AfterSleep(uncaught) == IF uncaught THEN "crashed" ELSE "poll"

----------------------------------------------------------------------------
(* Inputs *)

TokenValues == {None, Str(""), Str("tok")}

\* values of time.time() at startup
Nows == {1000, 1001}

DeliveryOutcomes == {"ok", "error"}

Names == {"proj1", "proj2"}

Statuses == {"approved", "reviewing", "rejected", "unknown"}

FieldValues(k) ==
    IF k = "homework_name"
    THEN {Str(n) : n \in Names} \cup {Int(1), None}
    ELSE {Str(s) : s \in Statuses} \cup {Int(1), None}

AllFieldValues == FieldValues("homework_name") \cup FieldValues("status")

\* submission records: each of the two keys absent, or present with a
\* string, a number or null
HomeworkDicts ==
    UNION {{Dict(f) : f \in {g \in [K -> AllFieldValues] :
                                \A k \in K : g[k] \in FieldValues(k)}} :
           K \in SUBSET {"homework_name", "status"}}

\* elements of a homeworks list: records, and values that are no records
Elements == HomeworkDicts \cup {None, Int(1)}

TailElements ==
    {None, Dict([homework_name |-> Str("proj2"), status |-> Str("approved")])}

HomeworkLists ==
    {List(<<>>)} \cup {List(<<h>>) : h \in Elements}
    \cup {List(<<h, x>>) : h \in Elements, x \in TailElements}

\* decoded response bodies
Responses ==
    {None, List(<<>>), Str("error"), Int(1)}
    \cup {Dict(<<>>), Dict([current_date |-> Int(1)])}
    \cup {Dict([homeworks |-> x]) :
             x \in {None, Str("approved"), Int(1), Dict(<<>>)}}
    \cup {Dict([homeworks |-> l]) : l \in HomeworkLists}
    \cup {Dict([homeworks |-> List(<<>>), current_date |-> Int(1)])}

\* The bodies the loop is run on: one for every shape check_response tells
\* apart, every kind of first element, and lists with further elements
PollElements ==
    {Dict([homework_name |-> Str("proj1"), status |-> Str(s)]) :
        s \in {"approved", "rejected", "unknown"}}
    \cup {Dict([homework_name |-> Str("proj1")]),
          Dict([homework_name |-> Str("proj1"), status |-> Int(1)])}

PollLists ==
    {List(<<>>)} \cup {List(<<h>>) : h \in PollElements}
    \cup {List(<<Dict([homework_name |-> Str("proj1"),
                      status |-> Str("approved")]), x>>) :
             x \in TailElements}
    \cup {List(<<Dict([homework_name |-> Str("proj1")]),
                 Dict([homework_name |-> Str("proj1"),
                       status |-> Str("approved")])>>)}

PollResponses ==
    {List(<<>>), Dict([current_date |-> Int(1)]),
     Dict([homeworks |-> Str("approved")]),
     Dict([homeworks |-> List(<<>>), current_date |-> Int(1)])}
    \cup {Dict([homeworks |-> l]) : l \in PollLists}

\* what the network does with one request
Replies ==
    {[transport_error |-> TRUE, status_code |-> 0, decodable |-> FALSE,
      json |-> None]}
    \cup {[transport_error |-> FALSE, status_code |-> 500, decodable |-> d,
           json |-> None] : d \in BOOLEAN}
    \cup {[transport_error |-> FALSE, status_code |-> 200,
           decodable |-> FALSE, json |-> None]}
    \cup {[transport_error |-> FALSE, status_code |-> 200,
           decodable |-> TRUE, json |-> r] : r \in PollResponses}

\* the request was answered with status 200 and a body that decodes to a
\* mapping whose homeworks list is empty
IsEmptyResult(reply) ==
    /\ ~reply.transport_error
    /\ reply.status_code = 200
    /\ reply.decodable
    /\ reply.json.t = "dict"
    /\ "homeworks" \in DOMAIN reply.json.v
    /\ reply.json.v["homeworks"] = List(<<>>)

----------------------------------------------------------------------------
(* The program *)

Push(log, x, max) ==
    IF Len(log) < max THEN Append(log, x) ELSE Append(Tail(log), x)

RECURSIVE PushAll(_, _, _)
PushAll(log, xs, max) ==
    IF xs = <<>> THEN log ELSE PushAll(Push(log, Head(xs), max), Tail(xs), max)

NoCall == [fn |-> "none", arg |-> None, ret |-> Return(None)]

Init ==
    /\ PRACTICUM_TOKEN \in TokenValues
    /\ TELEGRAM_TOKEN \in TokenValues
    /\ TELEGRAM_CHAT_ID \in TokenValues
    /\ pc = "start"
    /\ timestamp = None
    /\ old_message = None
    /\ propagating = FALSE
    /\ token_checks = 0
    /\ iterations = <<>>
    /\ notifications = <<>>
    /\ last_delivery = "none"
    /\ sleeps = <<>>
    /\ call = NoCall

tokenVars == <<PRACTICUM_TOKEN, TELEGRAM_TOKEN, TELEGRAM_CHAT_ID>>

\* faulty variant: the missing credentials are logged, but sys.exit() is left out
Start_no_exit ==
    /\ pc = "start"
    /\ token_checks' = token_checks + 1
    /\ \E now \in Nows : timestamp' = Int(now - RETRY_PERIOD)
    /\ old_message' = None
    /\ pc' = "poll"
    /\ UNCHANGED <<tokenVars, propagating, iterations, notifications,
                   last_delivery, sleeps, call>>

\* faulty variant: timestamp = int(time.time()), RETRY_PERIOD is not subtracted
Start_no_offset ==
    /\ pc = "start"
    /\ token_checks' = token_checks + 1
    /\ IF ~check_tokens
       THEN /\ pc' = "exited"
            /\ UNCHANGED <<timestamp, old_message>>
       ELSE /\ \E now \in Nows : timestamp' = Int(now)
            /\ old_message' = None
            /\ pc' = "poll"
    /\ UNCHANGED <<tokenVars, propagating, iterations, notifications,
                   last_delivery, sleeps, call>>

\* main, up to the loop: sys.exit() unless check_tokens(), else the locals
Start ==
    /\ pc = "start"
    /\ token_checks' = token_checks + 1
    /\ IF ~check_tokens
       THEN /\ pc' = "exited"
            /\ UNCHANGED <<timestamp, old_message>>
       ELSE /\ \E now \in Nows : timestamp' = Int(now - RETRY_PERIOD)
            /\ old_message' = None
            /\ pc' = "poll"
    /\ UNCHANGED <<tokenVars, propagating, iterations, notifications,
                   last_delivery, sleeps, call>>

\* one pass of the try/except statement of the loop; the logs keep the last
\* maxIter iterations and the last maxSent send_message calls
LoopBody(maxIter, maxSent) ==
    /\ pc = "poll"
    /\ \E reply \in Replies, outcome \in DeliveryOutcomes :
          LET it == RunIteration(old_message, timestamp, reply, outcome)
              texts == [i \in DOMAIN it.sends |-> it.sends[i].text]
          IN  /\ old_message' = it.old_message
              /\ notifications' = PushAll(notifications, texts, maxSent)
              /\ last_delivery' =
                    IF it.sends = <<>> THEN last_delivery
                    ELSE it.sends[Len(it.sends)].delivery
              /\ iterations' =
                    Push(iterations,
                         [from_date |-> timestamp,
                          empty_list |-> IsEmptyResult(reply),
                          message |-> it.message,
                          path |-> it.path,
                          sends |-> texts],
                         maxIter)
              /\ propagating' = it.uncaught
              /\ pc' = Finally(it.path)
    /\ sleeps' = <<>>
    /\ UNCHANGED <<tokenVars, timestamp, token_checks, call>>

Iteration == LoopBody(MaxIterLog, MaxSentLog)

\* time.sleep(RETRY_PERIOD) in the finally block
Sleep ==
    /\ pc = "sleep"
    /\ sleeps' = Append(sleeps, RETRY_PERIOD)
    /\ pc' = AfterSleep(propagating)
    /\ UNCHANGED <<tokenVars, timestamp, old_message, propagating,
                   token_checks, iterations, notifications, last_delivery,
                   call>>

Next == Start \/ Iteration \/ Sleep

Spec == Init /\ [][Next]_vars

\* The same program with logs that keep the last iteration and the last
\* send_message call only.
LastIteration == LoopBody(1, 1)

LastNext == Start \/ LastIteration \/ Sleep

\* main is the only thread of control: when the API call and the sleep
\* return, the step that is enabled is taken
FairSpec ==
    Init /\ [][LastNext]_vars /\ WF_vars(LastIteration) /\ WF_vars(Sleep)

----------------------------------------------------------------------------
(* Direct calls of the pure functions, on every input of the bounded sets: *)
(* each behaviour makes one call                                           *)

Bool(b) == [t |-> "bool", v |-> b]

CallCheckTokens ==
    /\ call = NoCall
    /\ call' = [fn |-> "check_tokens",
                arg |-> List(<<PRACTICUM_TOKEN, TELEGRAM_TOKEN,
                               TELEGRAM_CHAT_ID>>),
                ret |-> Return(Bool(check_tokens))]
    /\ UNCHANGED <<tokenVars, mainVars>>

CallCheckResponse ==
    /\ call = NoCall
    /\ \E response \in Responses :
          call' = [fn |-> "check_response", arg |-> response,
                   ret |-> check_response(response)]
    /\ UNCHANGED <<tokenVars, mainVars>>

CallParseStatus ==
    /\ call = NoCall
    /\ \E homework \in Elements :
          call' = [fn |-> "parse_status", arg |-> homework,
                   ret |-> parse_status(homework)]
    /\ UNCHANGED <<tokenVars, mainVars>>

CallGetApiAnswer ==
    /\ call = NoCall
    /\ \E reply \in Replies, now \in Nows :
          call' = [fn |-> "get_api_answer",
                   arg |-> [from_date |-> Int(now - RETRY_PERIOD),
                            reply |-> reply],
                   ret |-> get_api_answer(Int(now - RETRY_PERIOD), reply)]
    /\ UNCHANGED <<tokenVars, mainVars>>

\* the messages the loop produces on its inputs
PollMessages ==
    {RunIteration(None, Int(0), reply, "ok").message : reply \in Replies}

\* two consecutive passes of the loop body: the second starts with the
\* old_message the first has left (and is not made if the first has left
\* main with an exception)
TwoIterations(old, from_date, replies, outcomes) ==
    LET first == RunIteration(old, from_date, replies[1], outcomes[1])
        second == RunIteration(first.old_message, from_date, replies[2],
                               outcomes[2])
    IN  IF first.uncaught THEN <<first>> ELSE <<first, second>>

\* the loop body applied to every pair of replies, from every old_message
CallIterations ==
    /\ call = NoCall
    /\ check_tokens
    /\ \E old \in {None} \cup PollMessages, r1, r2 \in Replies,
          o1, o2 \in DeliveryOutcomes :
          call' = [fn |-> "iterations",
                   arg |-> [old_message |-> old,
                            replies |-> <<r1, r2>>,
                            outcomes |-> <<o1, o2>>],
                   ret |-> TwoIterations(old, Int(0), <<r1, r2>>,
                                         <<o1, o2>>)]
    /\ UNCHANGED <<tokenVars, mainVars>>

CallNext ==
    \/ CallCheckTokens
    \/ CallCheckResponse
    \/ CallParseStatus
    \/ CallGetApiAnswer
    \/ CallIterations

CallSpec == Init /\ [][CallNext]_vars

----------------------------------------------------------------------------
(* Properties *)

Last(seq) == seq[Len(seq)]

\* the step of the loop that runs the try/except statement
IterationStep == pc = "poll" /\ pc' # "poll"

Present(token) == token.t = "str" /\ token.v # ""

InLoop == pc \in {"poll", "sleep"}

\* C1: when two consecutive iterations produce the same message, the second
\* of them does not call send_message and the first calls it at most once;
\* no two consecutive send_message calls carry the same text.
C1_NoRepeatedNotification ==
    /\ \A i \in 1..(Len(iterations) - 1) :
          iterations[i].message = iterations[i + 1].message
             => /\ iterations[i + 1].sends = <<>>
                /\ Len(iterations[i].sends) <= 1
    /\ \A j \in 1..(Len(notifications) - 1) :
          notifications[j] # notifications[j + 1]

\* a failure message produced twice in a row, sent the first time only
C1_Witness ==
    /\ Len(iterations) = 3
    /\ iterations[2].path = "except"
    /\ iterations[2].message = iterations[3].message
    /\ iterations[2].sends = <<iterations[2].message.v>>
    /\ iterations[3].sends = <<>>

\* C2: an iteration whose message differs from old_message sets old_message
\* to the message and calls send_message once, with that message.
C2_ChangeIsNotified ==
    [][IterationStep =>
          LET it == Last(iterations')
          IN  it.message # old_message
                 => /\ old_message' = it.message
                    /\ it.sends = <<it.message.v>>
                    /\ Last(notifications') = it.message.v]_vars

\* A, B, A: three iterations, three send_message calls, B a failure message
C2_Witness ==
    /\ Len(iterations) = 3
    /\ iterations[1].message # iterations[2].message
    /\ iterations[3].message = iterations[1].message
    /\ iterations[2].path = "except"
    /\ \A i \in 1..3 : iterations[i].sends = <<iterations[i].message.v>>
    /\ notifications = <<iterations[2].message.v, iterations[3].message.v>>

\* C3: once in the loop, main stays in the loop; after an iteration that took
\* the failure path the sleep of 600 s is made, and get_api_answer is then
\* called again.
C3_LoopNeverEnds ==
    /\ [][InLoop => InLoop']_vars
    /\ [](pc = "sleep" /\ Last(iterations).path = "except"
             => <>(pc = "poll" /\ sleeps = <<600>>))
    /\ [](pc = "poll" => <>(pc = "sleep" /\ sleeps = <<>>))

\* get_api_answer has raised HTTPRequestError, the failure was notified, the
\* sleep is over and the loop is about to call get_api_answer again
C3_Witness ==
    /\ pc = "poll"
    /\ sleeps = <<600>>
    /\ Last(iterations).path = "except"
    /\ Last(iterations).message = Str(FAILURE_PREFIX \o ERROR_GET_API_ANSWER)
    /\ Last(iterations).sends = <<FAILURE_PREFIX \o ERROR_GET_API_ANSWER>>

\* C4: between two consecutive get_api_answer calls there is exactly one
\* sleep, of 600 s, whichever path the iteration took.
C4_OneSleepPerIteration ==
    /\ pc = "poll" => sleeps = IF iterations = <<>> THEN <<>> ELSE <<600>>
    /\ pc = "sleep" => sleeps = <<>> /\ iterations # <<>>
    /\ iterations # <<>> => InLoop

\* about to poll after one sleep, with iterations of both paths behind
C4_Witness ==
    /\ pc = "poll"
    /\ sleeps = <<600>>
    /\ Len(iterations) = 3
    /\ iterations[2].path = "try"
    /\ iterations[3].path = "except"

\* C5: with a credential empty or absent, main does not enter the loop: no
\* get_api_answer, send_message or sleep call is made, the check is made once
\* and the process ends.
C5_NoLoopWithoutCredentials ==
    ~(Present(PRACTICUM_TOKEN) /\ Present(TELEGRAM_TOKEN)
      /\ Present(TELEGRAM_CHAT_ID))
       => /\ pc \in {"start", "exited"}
          /\ pc = "exited" <=> token_checks = 1
          /\ token_checks <= 1
          /\ iterations = <<>>
          /\ notifications = <<>>
          /\ sleeps = <<>>

\* the process has ended with one credential empty and the other two set
C5_Witness ==
    /\ pc = "exited"
    /\ PRACTICUM_TOKEN = Str("tok")
    /\ TELEGRAM_TOKEN = Str("")
    /\ TELEGRAM_CHAT_ID = Str("tok")

\* C6: check_tokens returns true exactly when all three credentials are
\* non-empty strings.
C6_CheckTokens ==
    call.fn = "check_tokens"
       => call.ret = Return(Bool(\A i \in 1..3 : Present(call.arg.v[i])))

\* check_tokens has returned false with one credential absent, the other two set
C6_Witness ==
    /\ call.fn = "check_tokens"
    /\ call.arg = List(<<Str("tok"), Str("tok"), None>>)
    /\ call.ret = Return(Bool(FALSE))

\* C7: check_response raises TypeError for a value that is no mapping, else
\* KeyError for a mapping without the key homeworks, else TypeError for a
\* homeworks value that is no list, and else returns the homeworks value
\* unchanged.
C7_CheckResponse ==
    call.fn = "check_response"
       => LET response == call.arg
          IN  call.ret =
                 IF response.t # "dict"
                 THEN Raise("TypeError", "Nekorrektnyi otvet API")
                 ELSE IF "homeworks" \notin DOMAIN response.v
                 THEN Raise("KeyError", "Nekorrektnyi otvet API")
                 ELSE IF response.v["homeworks"].t # "list"
                 THEN Raise("TypeError", "Nekorrektnyi otvet API")
                 ELSE Return(response.v["homeworks"])

\* check_response has returned the empty list
C7_Witness ==
    /\ call.fn = "check_response"
    /\ call.arg = Dict([homeworks |-> List(<<>>)])
    /\ call.ret = Return(List(<<>>))

MissingKey(record) ==
    "homework_name" \notin DOMAIN record.v \/ "status" \notin DOMAIN record.v

NonString(record) ==
    record.v["homework_name"].t # "str" \/ record.v["status"].t # "str"

\* C8: for a submission record, parse_status raises KeyError if a key is
\* missing, else TypeError if a value is no string, else KeyError if the
\* status is not in the vocabulary, each with ERROR_PARSE_STATUS.
C8_ParseStatusFailures ==
    call.fn = "parse_status" /\ call.arg.t = "dict"
       => LET record == call.arg
              text == "Nedokumentirovannyi status proverki ili otsustvie klyucha"
          IN  IF MissingKey(record)
              THEN call.ret = Raise("KeyError", text)
              ELSE IF NonString(record)
              THEN call.ret = Raise("TypeError", text)
              ELSE record.v["status"].v
                      \notin {"approved", "reviewing", "rejected"}
                      => call.ret = Raise("KeyError", text)

\* a record that fails the type check and would fail the vocabulary check
C8_Witness ==
    /\ call.fn = "parse_status"
    /\ call.arg = Dict([homework_name |-> Int(1), status |-> Str("unknown")])
    /\ call.ret.raised
    /\ call.ret.cls = "TypeError"

ExpectedVerdict(status) ==
    CASE status = "approved" ->
            "Rabota proverena: revyueru vse ponravilos. Ura!"
      [] status = "reviewing" -> "Rabota vzyata na proverku revyuerom."
      [] status = "rejected" ->
            "Rabota proverena: u revyuera est zamechaniya."

\* C9: for a record with string values and a status of the vocabulary,
\* parse_status returns the status-change text with the name in quotation
\* marks and the verdict of the status; the vocabulary has exactly the keys
\* approved, reviewing and rejected.
C9_ParseStatusMessage ==
    /\ DOMAIN HOMEWORK_VERDICTS = {"approved", "reviewing", "rejected"}
    /\ call.fn = "parse_status" /\ call.arg.t = "dict"
       /\ ~MissingKey(call.arg) /\ ~NonString(call.arg)
       /\ call.arg.v["status"].v \in {"approved", "reviewing", "rejected"}
          => call.ret =
                Return("Izmenilsya status proverki raboty \""
                       \o call.arg.v["homework_name"].v \o "\". "
                       \o ExpectedVerdict(call.arg.v["status"].v))

\* the text for the record {homework_name: proj1, status: approved}
C9_Witness ==
    /\ call.fn = "parse_status"
    /\ call.arg = Dict([homework_name |-> Str("proj1"),
                        status |-> Str("approved")])
    /\ call.ret.value = "Izmenilsya status proverki raboty \"proj1\". Rabota proverena: revyueru vse ponravilos. Ura!"

\* C10: an iteration whose response has an empty homeworks list stays on the
\* try path with the fixed empty-result message; send_message is called with
\* it if it differs from old_message and is not called if it equals it.
C10_EmptyResult ==
    [][IterationStep /\ Last(iterations').empty_list =>
          LET it == Last(iterations')
              text == "Otvet API pust: net domashnikh rabot."
          IN  /\ it.path = "try"
              /\ it.message = Str(text)
              /\ old_message = Str(text)
                    => it.sends = <<>> /\ notifications' = notifications
              /\ old_message # Str(text)
                    => it.sends = <<text>> /\ Last(notifications') = text]_vars

\* two empty results in a row: the first is notified, the second is not
C10_Witness ==
    /\ Len(iterations) = 3
    /\ iterations[2].empty_list
    /\ iterations[3].empty_list
    /\ iterations[2].sends = <<EMPTY_MESSAGE>>
    /\ iterations[3].sends = <<>>
    /\ iterations[3].message = Str(EMPTY_MESSAGE)


\* C11: whatever bot.send_message does, the iteration that called
\* send_message made that one call only, with its own message, no exception
\* leaves the try statement, and main goes on to the sleep and the next pass.
C11_DeliveryFailureIsSwallowed ==
    iterations # <<>> /\ Last(iterations).sends # <<>>
       => LET it == Last(iterations)
          IN  /\ it.sends = <<it.message.v>>
              /\ old_message = it.message
              /\ ~propagating
              /\ InLoop
              /\ last_delivery \in {"ok", "error"}

\* a status message whose delivery failed; main has slept and polls again
C11_Witness ==
    /\ pc = "poll"
    /\ sleeps = <<600>>
    /\ Last(iterations).path = "try"
    /\ Last(iterations).sends = <<Last(iterations).message.v>>
    /\ last_delivery = "error"

\* C12 (as amended): old_message is None as long as send_message was not
\* called, and afterwards it is the text of the last send_message call,
\* whether bot.send_message delivered it or not.
C12_OldMessageIsLastAttempt ==
    IF notifications = <<>>
    THEN old_message = None
    ELSE old_message = Str(Last(notifications))

\* old_message holds a text whose delivery failed
C12_Witness ==
    /\ notifications # <<>>
    /\ old_message = Str(Last(notifications))
    /\ last_delivery = "error"
    /\ pc = "poll"

\* C12 (as claimed): old_message is None or the text of the last notification
\* that was delivered; it never holds a text whose delivery failed.
C12_OldMessageWasDelivered ==
    old_message = None
    \/ (/\ notifications # <<>>
        /\ old_message = Str(Last(notifications))
        /\ last_delivery = "ok")


\* C13: in a pass whose get_api_answer, check_response or parse_status raises,
\* the exception is caught, the message is 'Сбой в работе программы: ' followed
\* by str(error) (a KeyError's text in quotation marks), send_message is
\* called with it exactly when it differs from the old_message the pass
\* started with, and old_message is that message afterwards; a pass that
\* repeats the failure message of the pass before it sends nothing.
C13_FailureNotification ==
    call.fn = "iterations" =>
       \A k \in 1..Len(call.ret) :
          LET pass == call.ret[k]
              old == IF k = 1 THEN call.arg.old_message
                              ELSE call.ret[1].old_message
              tried == TryMessage(Int(0), call.arg.replies[k])
              text == "Sboi v rabote programmy: "
                      \o (IF tried.cls = "KeyError"
                          THEN "'" \o tried.arg \o "'" ELSE tried.arg)
          IN  tried.raised =>
                 /\ pass.path = "except"
                 /\ ~pass.uncaught
                 /\ pass.message = Str(text)
                 /\ pass.sends =
                       IF old = Str(text) THEN <<>>
                       ELSE <<[text |-> text,
                               delivery |-> call.arg.outcomes[k]]>>
                 /\ pass.old_message = Str(text)
                 /\ (k = 2 /\ call.ret[1].message = Str(text))
                       => pass.sends = <<>>

\* the reply lacks the key homeworks twice in a row: one notification with
\* the quoted KeyError text, then none
C13_Witness ==
    /\ call.fn = "iterations"
    /\ call.arg.old_message = None
    /\ Len(call.ret) = 2
    /\ call.ret[1].path = "except"
    /\ call.ret[1].message =
          Str(FAILURE_PREFIX \o "'" \o ERROR_CHECK_RESPONSE \o "'")
    /\ Len(call.ret[1].sends) = 1
    /\ call.ret[2].path = "except"
    /\ call.ret[2].message = call.ret[1].message
    /\ call.ret[2].sends = <<>>


\* the request was answered with status 200 and a body that decodes
ReplyOk(reply) ==
    ~reply.transport_error /\ reply.status_code = 200 /\ reply.decodable

\* C14: get_api_answer returns the decoded body exactly when the status is
\* 200 and the body decodes; after a transport failure, another status or a
\* body that does not decode it raises HTTPRequestError(ERROR_GET_API_ANSWER)
\* and nothing else, so two passes in a row that fail in get_api_answer, for
\* whatever causes, have the same failure message and the second sends
\* nothing.
C14_GetApiAnswer ==
    /\ call.fn = "get_api_answer" =>
          call.ret = IF ReplyOk(call.arg.reply)
                     THEN [raised |-> FALSE, value |-> call.arg.reply.json]
                     ELSE [raised |-> TRUE, cls |-> "HTTPRequestError",
                           arg |-> ERROR_GET_API_ANSWER]
    /\ (/\ call.fn = "iterations"
        /\ ~ReplyOk(call.arg.replies[1])
        /\ ~ReplyOk(call.arg.replies[2]))
          => /\ Len(call.ret) = 2
             /\ call.ret[1].message =
                   Str(FAILURE_PREFIX \o ERROR_GET_API_ANSWER)
             /\ call.ret[2].message = call.ret[1].message
             /\ Len(call.ret[1].sends) =
                   IF call.arg.old_message = call.ret[1].message
                   THEN 0 ELSE 1
             /\ call.ret[2].sends = <<>>

\* a body that does not decode, then a transport failure: one notification
C14_Witness ==
    /\ call.fn = "iterations"
    /\ call.arg.old_message = None
    /\ ~call.arg.replies[1].transport_error
    /\ call.arg.replies[1].status_code = 200
    /\ ~call.arg.replies[1].decodable
    /\ call.arg.replies[2].transport_error
    /\ Len(call.ret) = 2
    /\ call.ret[1].sends =
          <<[text |-> FAILURE_PREFIX \o ERROR_GET_API_ANSWER,
             delivery |-> call.arg.outcomes[1]]>>
    /\ call.ret[2].message = call.ret[1].message
    /\ call.ret[2].sends = <<>>


\* C15: the iteration whose send_message call failed to deliver made no
\* other call; while the last delivery attempt, for text M, is a failed one,
\* an iteration whose message is M makes no attempt and leaves everything as
\* it is, and an iteration whose message is not M makes one attempt, with its
\* own message.
C15_NoRetryOfFailedDelivery ==
    /\ [](last_delivery = "error" /\ iterations # <<>>
             => Len(Last(iterations).sends) <= 1)
    /\ [][(IterationStep /\ last_delivery = "error") =>
             LET it == Last(iterations')
                 M == Str(Last(notifications))
             IN  /\ it.message = M
                       => /\ it.sends = <<>>
                          /\ notifications' = notifications
                          /\ last_delivery' = "error"
                          /\ old_message' = M
                 /\ it.message # M
                       => /\ it.sends = <<it.message.v>>
                          /\ Last(notifications') = it.message.v]_vars

\* M is sent and not delivered (the last attempt there is), and the next
\* iteration produces M again and makes no attempt
C15_Witness ==
    /\ Len(iterations) = 3
    /\ iterations[2].sends = <<iterations[2].message.v>>
    /\ iterations[3].message = iterations[2].message
    /\ iterations[3].sends = <<>>
    /\ notifications = <<iterations[1].message.v, iterations[2].message.v>>
    /\ last_delivery = "error"
    /\ pc = "poll"

\* C16: in the loop, timestamp is the time at startup less 600 s, and every
\* iteration, whichever block it ended in, passed that same value to
\* get_api_answer and left it as it was.
C16_TimestampIsFixed ==
    InLoop =>
       /\ timestamp \in {Int(now - 600) : now \in Nows}
       /\ \A i \in DOMAIN iterations : iterations[i].from_date = timestamp

\* three iterations, failed and successful ones, all called with 1000 - 600
C16_Witness ==
    /\ Len(iterations) = 3
    /\ iterations[1].path = "except"
    /\ iterations[2].path = "try"
    /\ iterations[3].path = "except"
    /\ \A i \in 1..3 : iterations[i].from_date = Int(400)
    /\ timestamp = Int(400)


\* the reply passes get_api_answer and check_response with a list that has
\* elements
HasHomeworks(reply) ==
    /\ ReplyOk(reply)
    /\ reply.json.t = "dict"
    /\ "homeworks" \in DOMAIN reply.json.v
    /\ reply.json.v["homeworks"].t = "list"
    /\ reply.json.v["homeworks"].v # <<>>

FirstHomework(reply) == reply.json.v["homeworks"].v[1]

\* C17: for a reply with a non-empty homeworks list, the message of the pass
\* and the block it ends in are those parse_status gives for the first
\* element: the status message in the try block if parse_status returns, the
\* failure message in the except block if it raises; so two passes in a row
\* on lists with the same first element have the same message, and the
\* second sends nothing, whatever the other elements are.
C17_OnlyFirstHomework ==
    call.fn = "iterations" =>
       /\ \A k \in 1..Len(call.ret) :
             HasHomeworks(call.arg.replies[k]) =>
                LET parsed == parse_status(FirstHomework(call.arg.replies[k]))
                IN  IF parsed.raised
                    THEN /\ call.ret[k].path = "except"
                         /\ call.ret[k].message = Str(FailureMessage(parsed))
                    ELSE /\ call.ret[k].path = "try"
                         /\ call.ret[k].message = Str(parsed.value)
       /\ (/\ Len(call.ret) = 2
           /\ HasHomeworks(call.arg.replies[1])
           /\ HasHomeworks(call.arg.replies[2])
           /\ FirstHomework(call.arg.replies[1])
                 = FirstHomework(call.arg.replies[2]))
             => /\ call.ret[2].message = call.ret[1].message
                /\ call.ret[2].path = call.ret[1].path
                /\ call.ret[2].sends = <<>>

\* a list whose second element is null, then the list of its first element
\* alone: both passes end in the try block with the same status message
C17_Witness ==
    /\ call.fn = "iterations"
    /\ Len(call.ret) = 2
    /\ HasHomeworks(call.arg.replies[1])
    /\ HasHomeworks(call.arg.replies[2])
    /\ Len(call.arg.replies[1].json.v["homeworks"].v) = 2
    /\ call.arg.replies[1].json.v["homeworks"].v[2] = None
    /\ call.arg.replies[2].json.v["homeworks"].v
          = <<FirstHomework(call.arg.replies[1])>>
    /\ call.ret[1].path = "try"
    /\ call.ret[2].path = "try"
    /\ call.ret[2].message = call.ret[1].message


\* C18: no iteration calls send_message more than once: an iteration that
\* ends in the except block has made no call in the try block.
C18_OneSendPerIteration ==
    \A i \in DOMAIN iterations :
       /\ Len(iterations[i].sends) <= 1
       /\ iterations[i].path \in {"try", "except"}
       /\ iterations[i].sends # <<>>
             => iterations[i].sends = <<iterations[i].message.v>>

\* a call from the try block, a call from the except block, and an
\* iteration without a call
C18_Witness ==
    /\ Len(iterations) = 3
    /\ iterations[1].path = "try"
    /\ Len(iterations[1].sends) = 1
    /\ iterations[2].path = "except"
    /\ Len(iterations[2].sends) = 1
    /\ iterations[3].path = "except"
    /\ iterations[3].sends = <<>>


\* C19: old_message is None exactly as long as send_message has not been
\* called; a step changes old_message only if it is an iteration that calls
\* send_message, and then to the text of that call, delivered or not; every
\* iteration that calls send_message leaves old_message at the text of the
\* call; the first iteration of a run calls send_message.
C19_OldMessageFollowsSends ==
    /\ [](old_message = None <=> notifications = <<>>)
    /\ [][old_message' # old_message
             => /\ IterationStep
                /\ Last(iterations').sends # <<>>
                /\ old_message' = Str(Last(Last(iterations').sends))
                /\ old_message' = Str(Last(notifications'))
                /\ last_delivery' \in {"ok", "error"}]_vars
    /\ [][IterationStep =>
             LET it == Last(iterations')
             IN  /\ it.sends # <<>> => old_message' = Str(Last(it.sends))
                 /\ it.sends = <<>> => old_message' = old_message
                 /\ old_message = None => it.sends # <<>>]_vars

\* the first iteration of the run has called send_message with a failure
\* message, the delivery has failed, and old_message is that message
C19_Witness ==
    /\ Len(iterations) = 1
    /\ iterations[1].path = "except"
    /\ iterations[1].sends = <<iterations[1].message.v>>
    /\ notifications = iterations[1].sends
    /\ last_delivery = "error"
    /\ old_message = iterations[1].message

====
